---- MODULE Spec2Model ----
(***************************************************************************)
(* Analizador de Modo Subjuntivo (app.py): the subjunctive classifier, the *)
(* tense / person / lemma heuristics, the clause extractor and the         *)
(* analizar_texto loop.  Python strings are TLA+ strings; positions are    *)
(* 0-based as in the source, and Slice(s, a, b) is Python's s[a:b].        *)
(*                                                                         *)
(* TLC keeps the strings of a state as 8-bit characters, so the accented   *)
(* letters of the source are written here, one character for one, as       *)
(*     a-acute @    e-acute &    i-acute |    o-acute *    u-acute ^       *)
(*     n-tilde ~                                                           *)
(* ("est&" is the form of estar, "Car@cter 12" the position label).  The   *)
(* capitals of the accented letters are outside the model's alphabet.      *)
(***************************************************************************)
EXTENDS Integers, Sequences, FiniteSets, TLC

VARIABLES
    pattern_available,  \* st.session_state.pattern_available
    texto,              \* content of the text area
    nfrag,              \* number of fragments typed so far (bounds the editing)
    pc,                 \* "editar" | "bucle" | "hecho" | "aviso"
    posiciones,         \* list of (match.group(), match.start()) of analizar_texto
    i,                  \* index of the next element of posiciones (1-based)
    resultados,         \* the list of records analizar_texto builds
    palabra,            \* input of the word-level functions
    fase,               \* which word-level function runs next
    aceptada,           \* result of es_verbo_subjuntivo(palabra)
    tiempo,             \* result of determinar_tiempo_verbal(palabra)
    persona,            \* result of determinar_persona(palabra)
    lema                \* result of obtener_lema_verbal(palabra)

vars == << pattern_available, texto, nfrag, pc, posiciones, i, resultados,
           palabra, fase, aceptada, tiempo, persona, lema >>

varsTexto == << texto, nfrag, pc, posiciones, i, resultados >>

varsPalabra == << palabra, fase, aceptada, tiempo, persona, lema >>

-----------------------------------------------------------------------------
(* Bounds of the model. *)

\* fragments the user may type into the text area before pressing the button
MaxFragmentos == 3

\* letters of the stem put before each ending to build the input words
MaxRaiz == 1

-----------------------------------------------------------------------------
(* Lexical resources. *)

verbos_irregulares_subjuntivo ==
    << "sea", "seas", "seamos", "sean", "vaya", "vayas", "vayamos", "vayan", "haya",
       "hayas", "hayamos", "hayan", "est&", "est&s", "estemos", "est&n", "d&", "des",
       "demos", "den", "sepa", "sepas", "sepamos", "sepan", "quepa", "quepas", "quepamos",
       "quepan", "haga", "hagas", "hagamos", "hagan", "pueda", "puedas", "podamos",
       "puedan", "quiera", "quieras", "queramos", "quieran", "tenga", "tengas", "tengamos",
       "tengan", "venga", "vengas", "vengamos", "vengan", "digas", "diga", "digamos",
       "digan", "oyas", "oiga", "oigamos", "oigan", "caiga", "caigas", "caigamos", "caigan",
       "traiga", "traigas", "traigamos", "traigan", "valga", "valgas", "valgamos", "valgan",
       "salga", "salgas", "salgamos", "salgan", "duerma", "duermas", "durmamos", "duerman",
       "muera", "mueras", "muramos", "mueran", "sienta", "sientas", "sintamos", "sientan",
       "pida", "pidas", "pidamos", "pidan", "cuente", "cuentes", "contemos", "cuenten",
       "vuelva", "vuelvas", "volvamos", "vuelvan", "encuentre", "encuentres", "encontremos",
       "encuentren" >>

conectores_subjuntivo ==
    << "que", "cuando", "si", "aunque", "para que", "a fin de que", "como si",
       "a menos que", "con tal de que", "en caso de que", "sin que", "antes de que",
       "ojal@", "espero que", "dudo que", "no creo que", "es posible que",
       "es probable que", "quiz@s", "tal vez", "a no ser que", "salvo que", "excepto que",
       "mientras", "despu&s de que", "hasta que", "en cuanto", "siempre que", "por m@s que",
       "a pesar de que" >>

subjuntivo_terminaciones ==
    << "ara", "aras", "@ramos", "aran", "are", "ares", "@remos", "aren", "iera", "ieras",
       "i&ramos", "ieran", "iere", "ieres", "i&remos", "ieren", "era", "eras", "&ramos",
       "eran", "ese", "eses", "&semos", "esen", "a", "as", "amos", "an", "e", "es", "emos",
       "en", "a", "as", "amos", "an", "se", "ses", "semos", "sen" >>

verbos_irregulares ==
    ("sea" :> "ser") @@ ("seas" :> "ser") @@ ("seamos" :> "ser") @@ ("sean" :> "ser") @@
    ("vaya" :> "ir") @@ ("vayas" :> "ir") @@ ("vayamos" :> "ir") @@ ("vayan" :> "ir") @@
    ("haya" :> "haber") @@ ("hayas" :> "haber") @@ ("hayamos" :> "haber") @@
    ("hayan" :> "haber") @@ ("est&" :> "estar") @@ ("est&s" :> "estar") @@
    ("estemos" :> "estar") @@ ("est&n" :> "estar") @@ ("d&" :> "dar") @@
    ("des" :> "dar") @@ ("demos" :> "dar") @@ ("den" :> "dar") @@ ("sepa" :> "saber") @@
    ("sepas" :> "saber") @@ ("sepamos" :> "saber") @@ ("sepan" :> "saber") @@
    ("haga" :> "hacer") @@ ("hagas" :> "hacer") @@ ("hagamos" :> "hacer") @@
    ("hagan" :> "hacer") @@ ("pueda" :> "poder") @@ ("puedas" :> "poder") @@
    ("podamos" :> "poder") @@ ("puedan" :> "poder") @@ ("quiera" :> "querer") @@
    ("quieras" :> "querer") @@ ("queramos" :> "querer") @@ ("quieran" :> "querer") @@
    ("tenga" :> "tener") @@ ("tengas" :> "tener") @@ ("tengamos" :> "tener") @@
    ("tengan" :> "tener") @@ ("venga" :> "venir") @@ ("vengas" :> "venir") @@
    ("vengamos" :> "venir") @@ ("vengan" :> "venir")

\* the three ending tuples of the fallback of obtener_lema_verbal
lema_terminaciones_ar ==
    << "a", "as", "amos", "an", "ara", "aras", "@ramos", "aran", "are", "ares",
       "@remos", "aren" >>

lema_terminaciones_er ==
    << "e", "es", "emos", "en", "era", "eras", "&ramos", "eran", "ere", "eres",
       "&remos", "eren" >>

lema_terminaciones_ir ==
    << "e", "es", "imos", "en", "iera", "ieras", "i&ramos", "ieran", "iere", "ieres",
       "i&remos", "ieren" >>

\* the three ending lists of determinar_tiempo_verbal
tiempo_terminaciones_presente ==
    << "a", "as", "amos", "an", "e", "es", "emos", "en" >>

tiempo_terminaciones_imperfecto ==
    << "ara", "aras", "@ramos", "aran", "iera", "ieras", "i&ramos", "ieran", "era",
       "eras", "&ramos", "eran", "ese", "eses", "&semos", "esen" >>

tiempo_terminaciones_futuro ==
    << "are", "ares", "@remos", "aren", "iere", "ieres", "i&remos", "ieren" >>

\* the window of both scans of encontrar_clausula_subjuntivo, in characters
Ventana == 100

-----------------------------------------------------------------------------
(* Strings and characters. *)

Min(S) == CHOOSE x \in S : \A y \in S : x <= y

Max(S) == CHOOSE x \in S : \A y \in S : x >= y

\* s[k] for a 0-based k
Char(s, k) == SubSeq(s, k + 1, k + 1)

\* s[a:b] for 0 <= a <= b <= len(s)
Slice(s, a, b) == SubSeq(s, a + 1, b)

Minusculas == "abcdefghijklmnopqrstuvwxyz"

Mayusculas == "ABCDEFGHIJKLMNOPQRSTUVWXYZ"

\* the character class [a-záéíóúñ] of the tokenizer's regular expression
Clase ==
    { "a", "b", "c", "d", "e", "f", "g", "h", "i", "j", "k", "l", "m", "n", "o", "p",
      "q", "r", "s", "t", "u", "v", "w", "x", "y", "z", "@", "&", "|", "*", "^", "~" }

LetrasMayusculas ==
    { "A", "B", "C", "D", "E", "F", "G", "H", "I", "J", "K", "L", "M", "N", "O", "P",
      "Q", "R", "S", "T", "U", "V", "W", "X", "Y", "Z" }

\* \w of the regular expressions: letters, digits and the underscore
CaracteresW ==
    { "a", "b", "c", "d", "e", "f", "g", "h", "i", "j", "k", "l", "m", "n", "o", "p",
      "q", "r", "s", "t", "u", "v", "w", "x", "y", "z", "@", "&", "|", "*", "^", "~",
      "A", "B", "C", "D", "E", "F", "G", "H", "I", "J", "K", "L", "M", "N", "O", "P",
      "Q", "R", "S", "T", "U", "V", "W", "X", "Y", "Z",
      "0", "1", "2", "3", "4", "5", "6", "7", "8", "9", "_" }

Espacios == { " ", "\t", "\n", "\r" }

LowerChar(c) ==
    IF c \in LetrasMayusculas
    THEN Char(Minusculas, CHOOSE k \in 0 .. Len(Mayusculas) - 1 : Char(Mayusculas, k) = c)
    ELSE c

\* str.lower()
RECURSIVE lower(_)
lower(s) ==
    IF \A k \in 0 .. Len(s) - 1 : Char(s, k) \notin LetrasMayusculas THEN s
    ELSE IF Len(s) = 1 THEN LowerChar(s)
    ELSE LET h == Len(s) \div 2
         IN  lower(SubSeq(s, 1, h)) \o lower(SubSeq(s, h + 1, Len(s)))

\* re.sub(r'[^\w]', '', s)
RECURSIVE quitar_no_w(_)
quitar_no_w(s) ==
    IF \A k \in 0 .. Len(s) - 1 : Char(s, k) \in CaracteresW THEN s
    ELSE IF Len(s) = 1 THEN ""
    ELSE LET h == Len(s) \div 2
         IN  quitar_no_w(SubSeq(s, 1, h)) \o quitar_no_w(SubSeq(s, h + 1, Len(s)))

\* palabra_limpia = re.sub(r'[^\w]', '', palabra.lower())
limpiar(p) == quitar_no_w(lower(p))

\* str.endswith(t)
endswith(s, t) ==
    /\ Len(t) <= Len(s)
    /\ SubSeq(s, Len(s) - Len(t) + 1, Len(s)) = t

\* str.endswith(tuple) and any(s.endswith(t) for t in lista)
endswith_alguna(s, lista) == \E k \in 1 .. Len(lista) : endswith(s, lista[k])

\* x in lista
en_lista(x, lista) == \E k \in 1 .. Len(lista) : lista[k] = x

RECURSIVE lstrip(_)
lstrip(s) ==
    IF Len(s) > 0 /\ SubSeq(s, 1, 1) \in Espacios THEN lstrip(SubSeq(s, 2, Len(s))) ELSE s

RECURSIVE rstrip(_)
rstrip(s) ==
    IF Len(s) > 0 /\ SubSeq(s, Len(s), Len(s)) \in Espacios
    THEN rstrip(SubSeq(s, 1, Len(s) - 1))
    ELSE s

\* str.strip()
strip(s) == rstrip(lstrip(s))

-----------------------------------------------------------------------------
(* The optional library pattern.es, as far as the program uses it: tenses() *)
(* and lemma() of the words the library knows and the tables do not.        *)

pattern_lemas == ("cant&is" :> "cantar") @@ ("se@is" :> "ser")

\* tenses(w): the moods of the forms w may be
tenses(w) == IF w \in DOMAIN pattern_lemas THEN { "subjunctive" } ELSE {}

\* lemma(w): the infinitive, or w itself for a word the library does not know
lemma(w) == IF w \in DOMAIN pattern_lemas THEN pattern_lemas[w] ELSE w

-----------------------------------------------------------------------------
(* The word-level functions. *)

es_verbo_subjuntivo(p) ==
    LET palabra_limpia == limpiar(p)
    IN  IF palabra_limpia = "" THEN FALSE
        ELSE IF en_lista(palabra_limpia, verbos_irregulares_subjuntivo) THEN TRUE
        ELSE IF endswith_alguna(palabra_limpia, subjuntivo_terminaciones) THEN TRUE
        ELSE IF pattern_available THEN "subjunctive" \in tenses(palabra_limpia)
        ELSE FALSE

\* palabra_limpia[:-2] + sufijo if len(palabra_limpia) > 2 else palabra_limpia + sufijo
reemplazar_terminacion(palabra_limpia, sufijo) ==
    IF Len(palabra_limpia) > 2
    THEN SubSeq(palabra_limpia, 1, Len(palabra_limpia) - 2) \o sufijo
    ELSE palabra_limpia \o sufijo

\* the fallback of obtener_lema_verbal (lines 160-168)
lema_respaldo(palabra_limpia) ==
    IF endswith_alguna(palabra_limpia, lema_terminaciones_ar)
    THEN reemplazar_terminacion(palabra_limpia, "ar")
    ELSE IF endswith_alguna(palabra_limpia, lema_terminaciones_er)
    THEN reemplazar_terminacion(palabra_limpia, "er")
    ELSE IF endswith_alguna(palabra_limpia, lema_terminaciones_ir)
    THEN reemplazar_terminacion(palabra_limpia, "ir")
    ELSE palabra_limpia

obtener_lema_verbal(p) ==
    LET palabra_limpia == limpiar(p)
    IN  IF palabra_limpia \in DOMAIN verbos_irregulares
        THEN verbos_irregulares[palabra_limpia]
        ELSE IF /\ pattern_available
                /\ lemma(palabra_limpia) # ""
                /\ lemma(palabra_limpia) # palabra_limpia
        THEN lemma(palabra_limpia)
        ELSE lema_respaldo(palabra_limpia)

\* determinar_tiempo_verbal with the -er row left out of the present endings
determinar_tiempo_verbal_sin_er(verbo) ==
    LET verbo_limpio == limpiar(verbo)
    IN  IF endswith_alguna(verbo_limpio, << "a", "as", "amos", "an" >>)
        THEN "Presente"
        ELSE IF endswith_alguna(verbo_limpio, tiempo_terminaciones_imperfecto)
        THEN "Pret&rito imperfecto"
        ELSE IF endswith_alguna(verbo_limpio, tiempo_terminaciones_futuro)
        THEN "Futuro simple"
        ELSE "Indeterminado"

determinar_tiempo_verbal(verbo) ==
    LET verbo_limpio == limpiar(verbo)
    IN  IF endswith_alguna(verbo_limpio, tiempo_terminaciones_presente)
        THEN "Presente"
        ELSE IF endswith_alguna(verbo_limpio, tiempo_terminaciones_imperfecto)
        THEN "Pret&rito imperfecto"
        ELSE IF endswith_alguna(verbo_limpio, tiempo_terminaciones_futuro)
        THEN "Futuro simple"
        ELSE "Indeterminado"

determinar_persona(verbo) ==
    LET verbo_limpio == limpiar(verbo)
    IN  IF endswith_alguna(verbo_limpio, << "o", "a", "e" >>)
        THEN "1ra persona singular"
        ELSE IF endswith_alguna(verbo_limpio, << "as", "es" >>)
        THEN "2da persona singular"
        ELSE IF endswith_alguna(verbo_limpio, << "a", "e" >>)
        THEN "3ra persona singular"
        ELSE IF endswith_alguna(verbo_limpio, << "amos", "emos", "imos" >>)
        THEN "1ra persona plural"
        ELSE IF endswith_alguna(verbo_limpio, << "@is", "&is", "|s" >>)
        THEN "2da persona plural"
        ELSE IF endswith_alguna(verbo_limpio, << "an", "en" >>)
        THEN "3ra persona plural"
        ELSE "Indeterminada"

-----------------------------------------------------------------------------
(* The word-level functions applied to one input word. *)

RaizLetras == { "t", "i" }

RECURSIVE Raices(_)
Raices(n) ==
    IF n = 0 THEN { "" }
    ELSE Raices(n - 1) \cup { r \o c : r \in Raices(n - 1), c \in RaizLetras }

ElementosDe(lista) == { lista[k] : k \in 1 .. Len(lista) }

\* every ending some table of the program names, and a few that none names
Sufijos ==
    ElementosDe(subjuntivo_terminaciones) \cup ElementosDe(lema_terminaciones_ar)
        \cup ElementosDe(lema_terminaciones_er) \cup ElementosDe(lema_terminaciones_ir)
        \cup ElementosDe(tiempo_terminaciones_presente)
        \cup ElementosDe(tiempo_terminaciones_imperfecto)
        \cup ElementosDe(tiempo_terminaciones_futuro)
        \cup { "", "o", "@is", "&is", "|s", "&", "i*", "ar", "&s", "&n" }

\* whole words, and words as a caller may pass them: with capitals, with
\* punctuation, forms only the library knows, and no word at all
Ejemplos ==
    { "cantara", "cantare", "cante", "comiera", "comiese", "estudies", "vivimos", "canto",
      "Sea", "EST&", "-vaya!", "d&.", "Cantara,", "cant&is", "se@is", "cuando", "...", "x1" }

Palabras ==
    { r \o s : r \in Raices(MaxRaiz), s \in Sufijos }
        \cup ElementosDe(verbos_irregulares_subjuntivo) \cup Ejemplos

InitTexto0 ==
    /\ texto = ""
    /\ nfrag = 0
    /\ pc = "editar"
    /\ posiciones = << >>
    /\ i = 1
    /\ resultados = << >>

InitPalabra ==
    /\ pattern_available \in BOOLEAN
    /\ palabra \in Palabras
    /\ fase = "clasificar"
    /\ aceptada = FALSE
    /\ tiempo = ""
    /\ persona = ""
    /\ lema = ""
    /\ InitTexto0

Clasificar ==
    /\ fase = "clasificar"
    /\ aceptada' = es_verbo_subjuntivo(palabra)
    /\ fase' = "tiempo"
    /\ UNCHANGED << pattern_available, palabra, tiempo, persona, lema >>
    /\ UNCHANGED varsTexto

DeterminarTiempo ==
    /\ fase = "tiempo"
    /\ tiempo' = determinar_tiempo_verbal(palabra)
    /\ fase' = "persona"
    /\ UNCHANGED << pattern_available, palabra, aceptada, persona, lema >>
    /\ UNCHANGED varsTexto

DeterminarPersona ==
    /\ fase = "persona"
    /\ persona' = determinar_persona(palabra)
    /\ fase' = "lema"
    /\ UNCHANGED << pattern_available, palabra, aceptada, tiempo, lema >>
    /\ UNCHANGED varsTexto

ObtenerLema ==
    /\ fase = "lema"
    /\ lema' = obtener_lema_verbal(palabra)
    /\ fase' = "fin"
    /\ UNCHANGED << pattern_available, palabra, aceptada, tiempo, persona >>
    /\ UNCHANGED varsTexto

NextPalabra == Clasificar \/ DeterminarTiempo \/ DeterminarPersona \/ ObtenerLema

SpecPalabra == InitPalabra /\ [][NextPalabra]_vars

-----------------------------------------------------------------------------
(* The clause extractor. *)

\* texto.rfind(sub, a, b): the highest start of sub lying inside s[a:b], or -1
rfind(s, sub, a, b) ==
    LET hits == { k \in a .. b - Len(sub) : Slice(s, k, k + Len(sub)) = sub }
    IN  IF hits = {} THEN -1 ELSE Max(hits)

\* texto.find(sub, a): the lowest start of sub at or after a, or -1
find(s, sub, a) ==
    LET hits == { k \in a .. Len(s) - Len(sub) : Slice(s, k, k + Len(sub)) = sub }
    IN  IF hits = {} THEN -1 ELSE Min(hits)

\* for conector in conectores_subjuntivo: ... break, from the k-th connector on
RECURSIVE buscar_inicio(_, _, _, _)
buscar_inicio(t, inicio, posicion_verbo, k) ==
    IF k > Len(conectores_subjuntivo) THEN inicio
    ELSE LET idx == rfind(t, conectores_subjuntivo[k], inicio, posicion_verbo)
         IN  IF idx # -1 THEN idx ELSE buscar_inicio(t, inicio, posicion_verbo, k + 1)

\* inicio at line 222
clausula_inicio(t, posicion_verbo) ==
    buscar_inicio(t, Max({ 0, posicion_verbo - Ventana }), posicion_verbo, 1)

puntuaciones == << ".", "!", "?", ";" >>

\* for puntuacion in ['.', '!', '?', ';']: ... break, from the k-th mark on
RECURSIVE buscar_fin(_, _, _, _)
buscar_fin(t, fin, posicion_verbo, k) ==
    IF k > Len(puntuaciones) THEN fin
    ELSE LET idx == find(t, puntuaciones[k], posicion_verbo)
         IN  IF idx # -1 /\ idx < fin THEN idx + 1
             ELSE buscar_fin(t, fin, posicion_verbo, k + 1)

\* clausula_fin with the scan to the right left unbounded
clausula_fin_sin_ventana(t, posicion_verbo) ==
    buscar_fin(t, Len(t), posicion_verbo, 1)

\* fin at line 222
clausula_fin(t, posicion_verbo) ==
    buscar_fin(t, Min({ Len(t), posicion_verbo + Ventana }), posicion_verbo, 1)

encontrar_clausula_subjuntivo(t, posicion_verbo) ==
    strip(Slice(t, clausula_inicio(t, posicion_verbo), clausula_fin(t, posicion_verbo)))

-----------------------------------------------------------------------------
(* The tokenizer: re.finditer(r'\b[a-záéíóúñ]+\b', t). *)

\* \b at position k of t
limite(t, k) ==
    LET antes == k > 0 /\ Char(t, k - 1) \in CaracteresW
        despues == k < Len(t) /\ Char(t, k) \in CaracteresW
    IN  antes # despues

\* where the run of class characters that starts at k ends
fin_racha(t, k) ==
    Min({ j \in k + 1 .. Len(t) : j = Len(t) \/ Char(t, j) \notin Clase })

\* the end of the match of the expression at k (greedy, backtracking), or -1
coincidencia(t, k) ==
    IF Char(t, k) \notin Clase \/ ~limite(t, k) THEN -1
    ELSE LET fines == { j \in k + 1 .. fin_racha(t, k) : limite(t, j) }
         IN  IF fines = {} THEN -1 ELSE Max(fines)

\* the matches at or after desde, left to right, as (match.group(), match.start())
RECURSIVE finditer(_, _)
finditer(t, desde) ==
    LET inicios == { k \in desde .. Len(t) - 1 : coincidencia(t, k) # -1 }
    IN  IF inicios = {} THEN << >>
        ELSE LET k == Min(inicios)
                 j == coincidencia(t, k)
             IN  << << Slice(t, k, j), k >> >> \o finditer(t, j)

-----------------------------------------------------------------------------
(* analizar_texto, and the page around it. *)

\* procesar that skips a surface form it has already recorded
procesar_sin_repetidos(res, t, pal, posicion) ==
    IF /\ es_verbo_subjuntivo(pal)
       /\ \A n \in 1 .. Len(res) : res[n].Verbo # Slice(t, posicion, posicion + Len(pal))
    THEN Append(res,
                [ Verbo     |-> Slice(t, posicion, posicion + Len(pal)),
                  Lema      |-> obtener_lema_verbal(pal),
                  Tiempo    |-> determinar_tiempo_verbal(pal),
                  Persona   |-> determinar_persona(pal),
                  Clausula  |-> encontrar_clausula_subjuntivo(t, posicion),
                  Posicion  |-> "Car@cter " \o ToString(posicion) ])
    ELSE res

\* the body of the loop of analizar_texto: the list after the token (pal, posicion)
procesar(res, t, pal, posicion) ==
    IF es_verbo_subjuntivo(pal)
    THEN Append(res,
                [ Verbo     |-> Slice(t, posicion, posicion + Len(pal)),
                  Lema      |-> obtener_lema_verbal(pal),
                  Tiempo    |-> determinar_tiempo_verbal(pal),
                  Persona   |-> determinar_persona(pal),
                  Clausula  |-> encontrar_clausula_subjuntivo(t, posicion),
                  Posicion  |-> "Car@cter " \o ToString(posicion) ])
    ELSE res

RECURSIVE Repetir(_, _)
Repetir(c, n) == IF n = 0 THEN "" ELSE c \o Repetir(c, n - 1)

\* a word no table accepts and a space, 95 characters: a mark typed after
\* "que " and it stands at p + 99 of the verb "que", after "Vaya " and it at p + 100
Relleno == Repetir("o", 94) \o " "

\* a word longer than the window that ends in -a
PalabraLarga == Repetir("a", Ventana + 1) \o " "

\* what the user types, a fragment at a time
Fragmentos ==
    { "que ", "cuando ", "Vaya ", "cant&is ", ".", "! ", "1", Relleno, PalabraLarga }

InitPalabra0 ==
    /\ palabra = ""
    /\ fase = "clasificar"
    /\ aceptada = FALSE
    /\ tiempo = ""
    /\ persona = ""
    /\ lema = ""

Init ==
    /\ pattern_available \in BOOLEAN
    /\ InitTexto0
    /\ InitPalabra0

\* the user types into the text area
Escribir ==
    /\ pc = "editar"
    /\ nfrag < MaxFragmentos
    /\ \E f \in Fragmentos : texto' = texto \o f
    /\ nfrag' = nfrag + 1
    /\ UNCHANGED << pattern_available, pc, posiciones, i, resultados >>
    /\ UNCHANGED varsPalabra

\* the button, on a blank text: the warning
Avisar ==
    /\ pc = "editar"
    /\ strip(texto) = ""
    /\ pc' = "aviso"
    /\ UNCHANGED << pattern_available, texto, nfrag, posiciones, i, resultados >>
    /\ UNCHANGED varsPalabra

\* the button: analizar_texto starts and finds the words and their positions
Analizar ==
    /\ pc = "editar"
    /\ strip(texto) # ""
    /\ posiciones' = finditer(lower(texto), 0)
    /\ resultados' = << >>
    /\ i' = 1
    /\ pc' = "bucle"
    /\ UNCHANGED << pattern_available, texto, nfrag >>
    /\ UNCHANGED varsPalabra

\* one iteration of  for palabra, posicion in posiciones
Iterar ==
    /\ pc = "bucle"
    /\ i <= Len(posiciones)
    /\ resultados' = procesar(resultados, texto, posiciones[i][1], posiciones[i][2])
    /\ i' = i + 1
    /\ UNCHANGED << pattern_available, texto, nfrag, pc, posiciones >>
    /\ UNCHANGED varsPalabra

\* return resultados
Devolver ==
    /\ pc = "bucle"
    /\ i > Len(posiciones)
    /\ pc' = "hecho"
    /\ UNCHANGED << pattern_available, texto, nfrag, posiciones, i, resultados >>
    /\ UNCHANGED varsPalabra

Next == Escribir \/ Avisar \/ Analizar \/ Iterar \/ Devolver

Spec == Init /\ [][Next]_vars

-----------------------------------------------------------------------------
(* Properties of the word-level functions, checked under SpecPalabra. *)

\* C2: a word accepted as subjunctive gets the tense of the first bucket that
\* matches in the order imperfect, future simple, present: 'Pretérito imperfecto'
\* when it ends in an imperfect ending, 'Futuro simple' when it ends in a
\* future-simple ending, and 'Presente' only when neither matches.
C2_PrimerGrupoImperfectoFuturoPresente ==
    (fase = "fin" /\ aceptada) =>
        LET w == limpiar(palabra)
            imperfecto == endswith_alguna(w, tiempo_terminaciones_imperfecto)
            futuro == endswith_alguna(w, tiempo_terminaciones_futuro)
        IN  /\ imperfecto => tiempo = "Pret&rito imperfecto"
            /\ (~imperfecto /\ futuro) => tiempo = "Futuro simple"
            /\ tiempo = "Presente" => (~imperfecto /\ ~futuro)

\* C3: a word whose ending matches both the 1st-singular and the 3rd-singular
\* ending sets (it ends in -a or -e) is reported as '3ra persona singular'.
C3_TerceraSingularAntesQuePrimera ==
    fase = "fin" =>
        LET w == limpiar(palabra)
        IN  (endswith_alguna(w, << "o", "a", "e" >>) /\ endswith_alguna(w, << "a", "e" >>))
                => persona = "3ra persona singular"

\* C4: every key of the irregular lemma map, taken as a word, is accepted by
\* es_verbo_subjuntivo, gets the lemma the map gives it, and gets the tense
\* 'Presente'.
C4_ClavesIrregularesPresente ==
    (fase = "fin" /\ palabra \in DOMAIN verbos_irregulares) =>
        /\ aceptada
        /\ lema = verbos_irregulares[palabra]
        /\ tiempo = "Presente"

\* the lemmas the fallback may return under C8: the word without an ending of the
\* first class (-ar, -er, -ir) that has an ending the word ends with, plus the suffix
lemas_por_terminacion(w, lista, sufijo) ==
    { SubSeq(w, 1, Len(w) - Len(lista[k])) \o sufijo :
        k \in { n \in 1 .. Len(lista) : endswith(w, lista[n]) } }

\* C8: without the library, for a word that is no key of the irregular lemma
\* map, obtener_lema_verbal removes exactly a recognized ending the word ends
\* with and appends the suffix of the first class whose ending set matches, in
\* the order -ar, -er, -ir; a word matching no ending set is returned unchanged.
C8_LemaQuitaLaTerminacion ==
    (fase = "fin" /\ ~pattern_available
        /\ limpiar(palabra) \notin DOMAIN verbos_irregulares) =>
        LET w == limpiar(palabra)
        IN  IF endswith_alguna(w, lema_terminaciones_ar)
            THEN lema \in lemas_por_terminacion(w, lema_terminaciones_ar, "ar")
            ELSE IF endswith_alguna(w, lema_terminaciones_er)
            THEN lema \in lemas_por_terminacion(w, lema_terminaciones_er, "er")
            ELSE IF endswith_alguna(w, lema_terminaciones_ir)
            THEN lema \in lemas_por_terminacion(w, lema_terminaciones_ir, "ir")
            ELSE lema = w

\* the word is accepted by rule 2: it is not empty, no irregular form, and ends in
\* an ending of subjuntivo_terminaciones
aceptada_por_terminacion(p) ==
    LET w == limpiar(p)
    IN  /\ w # ""
        /\ ~en_lista(w, verbos_irregulares_subjuntivo)
        /\ endswith_alguna(w, subjuntivo_terminaciones)

\* C9: without the library, a word accepted through the suffix list never gets
\* the tense 'Indeterminado'; an accepted word gets it only when the irregular
\* table accepted it and it ends in none of the tense endings.
C9_IndeterminadoSoloPorTablaIrregular ==
    (fase = "fin" /\ ~pattern_available) =>
        /\ aceptada_por_terminacion(palabra) => (aceptada /\ tiempo # "Indeterminado")
        /\ (aceptada /\ tiempo = "Indeterminado") =>
              /\ en_lista(limpiar(palabra), verbos_irregulares_subjuntivo)
              /\ ~endswith_alguna(limpiar(palabra), tiempo_terminaciones_presente)
              /\ ~endswith_alguna(limpiar(palabra), tiempo_terminaciones_imperfecto)
              /\ ~endswith_alguna(limpiar(palabra), tiempo_terminaciones_futuro)

\* a word accepted only through an imperfect ending of the suffix list has a tense
C9_Testigo ==
    /\ fase = "fin"
    /\ ~pattern_available
    /\ aceptada_por_terminacion(palabra)
    /\ endswith_alguna(limpiar(palabra), tiempo_terminaciones_imperfecto)
    /\ tiempo # "Indeterminado"

-----------------------------------------------------------------------------
(* Properties of analizar_texto and the clause extractor, checked under Spec. *)

Digito(c) == CHOOSE d \in 0 .. 9 : ToString(d) = c

RECURSIVE Entero(_)
Entero(s) ==
    IF Len(s) = 0 THEN 0
    ELSE 10 * Entero(SubSeq(s, 1, Len(s) - 1)) + Digito(SubSeq(s, Len(s), Len(s)))

\* the character position a record states in its field Posición
PosicionDe(r) == Entero(SubSeq(r.Posicion, Len("Car@cter ") + 1, Len(r.Posicion)))

Registros == { resultados[n] : n \in 1 .. Len(resultados) }

\* C1: for every record analizar_texto returns, the span [inicio, fin) of its
\* clause contains the whole surface form of the verb at the recorded position.
C1_ClausulaContieneElVerbo ==
    pc = "hecho" =>
        \A r \in Registros :
            LET p == PosicionDe(r)
            IN  /\ clausula_inicio(texto, p) <= p
                /\ p + Len(r.Verbo) <= clausula_fin(texto, p)

\* the starts of the trigger phrases that lie inside t[a:b]
OcurrenciasDeConectores(t, a, b) ==
    { k \in a .. b - 1 :
        \E c \in 1 .. Len(conectores_subjuntivo) :
            /\ k + Len(conectores_subjuntivo[c]) <= b
            /\ Slice(t, k, k + Len(conectores_subjuntivo[c])) = conectores_subjuntivo[c] }

\* C5: the clause starts at the occurrence of a trigger phrase nearest to the
\* verb inside the window [max(0, p-100), p), whichever phrase it is, and at
\* the window boundary if none occurs.
C5_InicioEnElConectorMasCercano ==
    pc = "hecho" =>
        \A r \in Registros :
            LET p == PosicionDe(r)
                a == Max({ 0, p - Ventana })
                ocurrencias == OcurrenciasDeConectores(texto, a, p)
            IN  clausula_inicio(texto, p) = IF ocurrencias = {} THEN a ELSE Max(ocurrencias)

\* the indexes of the marks . ! ? ; in t[a:b]
OcurrenciasDePuntuacion(t, a, b) ==
    { k \in a .. b - 1 : \E m \in 1 .. Len(puntuaciones) : Char(t, k) = puntuaciones[m] }

\* C6: the clause ends just after the nearest of the marks . ! ? ; at an index
\* in [p, min(len(text), p+100)), whichever mark it is, and at
\* min(len(text), p+100) if none occurs there.
C6_FinEnLaPuntuacionMasCercana ==
    pc = "hecho" =>
        \A r \in Registros :
            LET p == PosicionDe(r)
                b == Min({ Len(texto), p + Ventana })
                ocurrencias == OcurrenciasDePuntuacion(texto, p, b)
            IN  clausula_fin(texto, p) = IF ocurrencias = {} THEN b ELSE Min(ocurrencias) + 1

\* the starts of the words of the lowered text that es_verbo_subjuntivo accepts
InicioDeTokensAceptados ==
    LET t == lower(texto)
    IN  { k \in 0 .. Len(t) - 1 :
            /\ coincidencia(t, k) # -1
            /\ es_verbo_subjuntivo(Slice(t, k, coincidencia(t, k))) }

\* C7: analizar_texto returns exactly one record per accepted token: as many
\* records as accepted tokens, at strictly increasing positions, one at the
\* position of each accepted token, and a surface form accepted k times has k
\* records.
C7_UnRegistroPorTokenAceptado ==
    pc = "hecho" =>
        /\ Len(resultados) = Cardinality(InicioDeTokensAceptados)
        /\ \A m, n \in 1 .. Len(resultados) :
              m < n => PosicionDe(resultados[m]) < PosicionDe(resultados[n])
        /\ { PosicionDe(r) : r \in Registros } = InicioDeTokensAceptados
        /\ \A r \in Registros :
              Cardinality({ n \in 1 .. Len(resultados) : resultados[n].Verbo = r.Verbo })
                = Cardinality({ k \in InicioDeTokensAceptados :
                                  /\ coincidencia(lower(texto), k) = k + Len(r.Verbo)
                                  /\ Slice(texto, k, k + Len(r.Verbo)) = r.Verbo })

\* a surface form that occurs twice in the text has two records
C7_Testigo ==
    /\ pc = "hecho"
    /\ \E m, n \in 1 .. Len(resultados) :
          m < n /\ resultados[m].Verbo = resultados[n].Verbo

\* C10: both scans stay inside the window: p-100 <= inicio and fin <= p+100 for
\* every record, so the clause span is never longer than 200 characters.
C10_ClausulaDentroDeLaVentana ==
    pc = "hecho" =>
        \A r \in Registros :
            LET p == PosicionDe(r)
                inicio == clausula_inicio(texto, p)
                fin == clausula_fin(texto, p)
            IN  /\ p - Ventana <= inicio
                /\ fin <= p + Ventana
                /\ fin - inicio <= 2 * Ventana

\* a verb with neither a trigger phrase nor a mark within 100 characters on either
\* side, in a text that goes on beyond both windows: the span is the two windows
C10_Testigo ==
    /\ pc = "hecho"
    /\ \E r \in Registros :
          LET p == PosicionDe(r)
          IN  /\ p > Ventana
              /\ Len(texto) > p + Ventana
              /\ clausula_inicio(texto, p) = p - Ventana
              /\ clausula_fin(texto, p) = p + Ventana

====
